---- MODULE Spec2Model ----
(***************************************************************************)
(* A model of the MODBUS/TCP decoder of src/parsers/modbus_parser/parser.py *)
(* (class ModbusParser): parse_packet, _parse_function and get_statistics,  *)
(* with the parser's state (transaction_count, packets), and of load_pcap    *)
(* and the __main__ block that drive it from the command line.              *)
(*                                                                         *)
(* Bytes are naturals 0..255; a bytes object is a sequence of them and the *)
(* Python index i is the TLA+ index i + 1.  A Python str is a sequence of   *)
(* characters (hex digits as one-character strings, decoded text as code    *)
(* points).  None is the empty sequence and a returned value v is <<v>>.    *)
(***************************************************************************)
EXTENDS Integers, Sequences, FiniteSets, TLC

VARIABLES
    transaction_count,  \* self.transaction_count
    packets,            \* self.packets, the transaction log
    ret,                \* what the latest parse_packet call returned
    stats,              \* what the latest get_statistics call returned
    fed,                \* history: every frame handed to parse_packet, in order
    hdr_reads,          \* indices of the frame that the latest call indexed
    raised,             \* an exception escaped the latest parse_packet call
    cli,                \* the run of the __main__ block, None when there is none
    workers             \* two workers, each with a parser of its own, or None

vars == <<transaction_count, packets, ret, stats, fed, hdr_reads, raised, cli,
          workers>>

None == <<>>
Some(v) == <<v>>

-----------------------------------------------------------------------------
(* Bounds of the model. *)

MaxFrames == 3      \* frames handed to one parser in a session
MaxData == 3        \* data bytes after byte_count in a generated read payload
MaxWrite == 5       \* bytes in a generated write payload
MaxTail == 4        \* bytes after object_count in a generated code-43 payload
MaxObjects == 2     \* largest object_count in a generated code-43 payload

-----------------------------------------------------------------------------
(* Python's bytes operations. *)

InRange(b, i) == i >= 0 /\ i < Len(b)

\* b[i]; the value is only used where the index was checked to be in range.
At(b, i) == IF InRange(b, i) THEN b[i + 1] ELSE 0 - 1

Min(a, b) == IF a <= b THEN a ELSE b

\* b[lo:hi] for lo, hi >= 0: clamped to the object, empty when hi <= lo.
PySlice(b, lo, hi) ==
    LET h == Min(hi, Len(b))
    IN  IF lo >= h THEN <<>> ELSE SubSeq(b, lo + 1, h)

\* b[lo:]
PySliceFrom(b, lo) == PySlice(b, lo, Len(b))

\* the indices a slice b[lo:hi] copies
SliceIdx(b, lo, hi) == {i \in lo .. (Min(hi, Len(b)) - 1) : i >= 0}

HexDigits == <<"0", "1", "2", "3", "4", "5", "6", "7",
               "8", "9", "a", "b", "c", "d", "e", "f">>

\* bytes.hex() writing the low nibble of each byte first
hex_LowNibbleFirst(b) ==
    [k \in 1 .. 2 * Len(b) |->
        IF k % 2 = 1 THEN HexDigits[(b[(k + 1) \div 2] % 16) + 1]
                     ELSE HexDigits[(b[k \div 2] \div 16) + 1]]

\* bytes.hex(): two lower-case hex digits per byte, high nibble first.
hex(b) ==
    [k \in 1 .. 2 * Len(b) |->
        IF k % 2 = 1 THEN HexDigits[(b[(k + 1) \div 2] \div 16) + 1]
                     ELSE HexDigits[(b[k \div 2] % 16) + 1]]

\* bytes.decode('ascii', errors='replace'): a byte >= 128 becomes U+FFFD.
decode_ascii_replace(b) ==
    [k \in 1 .. Len(b) |-> IF b[k] < 128 THEN b[k] ELSE 65533]

\* (hi << 8) | lo for two bytes
Shl8Or(hi, lo) == hi * 256 + lo

-----------------------------------------------------------------------------
(* FUNCTION_CODES, parser.py lines 22-32. *)

FUNCTION_CODES ==
    (1 :> "Read Coils") @@ (2 :> "Read Discrete Inputs") @@
    (3 :> "Read Holding Registers") @@ (4 :> "Read Input Registers") @@
    (5 :> "Write Single Coil") @@ (6 :> "Write Single Register") @@
    (15 :> "Write Multiple Coils") @@ (16 :> "Write Multiple Registers") @@
    (43 :> "Read Device Identification")

\* FUNCTION_CODES.get(function_code, f"Unknown ({function_code})")
FunctionName(function_code) ==
    IF function_code \in DOMAIN FUNCTION_CODES
    THEN FUNCTION_CODES[function_code]
    ELSE "Unknown (" \o ToString(function_code) \o ")"

-----------------------------------------------------------------------------
(* _parse_function, parser.py lines 96-209.  Each family yields the dict it  *)
(* returns (out) and the payload indices it reads (reads); an index outside  *)
(* the payload is Python's IndexError, which the handler at line 207 turns   *)
(* into the generic error dict.                                              *)

\* line 119 shifting from the top bit down: most significant bit first
RECURSIVE CoilBits_MsbFirst(_, _, _, _)
CoilBits_MsbFirst(payload, byte_count, i, bit) ==
    IF bit >= 8 THEN <<>>
    ELSE (IF (i - 1) * 8 + bit < byte_count * 8
          THEN <<(At(payload, i) \div (2 ^ (7 - bit))) % 2>>
          ELSE <<>>) \o CoilBits_MsbFirst(payload, byte_count, i, bit + 1)

\* lines 116-119: the bits of payload[i], least significant first
RECURSIVE CoilBits(_, _, _, _)
CoilBits(payload, byte_count, i, bit) ==
    IF bit >= 8 THEN <<>>
    ELSE (IF (i - 1) * 8 + bit < byte_count * 8
          THEN <<(At(payload, i) \div (2 ^ bit)) % 2>>
          ELSE <<>>) \o CoilBits(payload, byte_count, i, bit + 1)

\* line 116: for i in range(i, stop)
RECURSIVE CoilValues(_, _, _, _)
CoilValues(payload, byte_count, i, stop) ==
    IF i >= stop THEN <<>>
    ELSE CoilBits(payload, byte_count, i, 0)
            \o CoilValues(payload, byte_count, i + 1, stop)

\* line 122 stepping by 1: the pairs overlap
RECURSIVE RegisterValues_Step1(_, _, _)
RegisterValues_Step1(payload, i, stop) ==
    IF i >= stop THEN <<>>
    ELSE (IF i + 1 < Len(payload)
          THEN <<Shl8Or(At(payload, i), At(payload, i + 1))>>
          ELSE <<>>) \o RegisterValues_Step1(payload, i + 1, stop)

\* lines 122-124: for i in range(i, stop, 2): if i + 1 < len(payload): ...
RECURSIVE RegisterValues(_, _, _)
RegisterValues(payload, i, stop) ==
    IF i >= stop THEN <<>>
    ELSE (IF i + 1 < Len(payload)
          THEN <<Shl8Or(At(payload, i), At(payload, i + 1))>>
          ELSE <<>>) \o RegisterValues(payload, i + 2, stop)

\* the indices read when the test of line 123 is left out
RECURSIVE RegisterReads_NoPairCheck(_, _, _)
RegisterReads_NoPairCheck(payload, i, stop) ==
    IF i >= stop THEN {}
    ELSE {i, i + 1} \cup RegisterReads_NoPairCheck(payload, i + 2, stop)

\* the indices RegisterValues reads
RECURSIVE RegisterReads(_, _, _)
RegisterReads(payload, i, stop) ==
    IF i >= stop THEN {}
    ELSE (IF i + 1 < Len(payload) THEN {i, i + 1} ELSE {})
            \cup RegisterReads(payload, i + 2, stop)

\* lines 108-129: function codes 1-4
ParseRead(function_code, payload) ==
    IF Len(payload) < 1
    THEN [out |-> [error |-> "Payload too short for read response"],
          reads |-> {}]
    ELSE LET byte_count == At(payload, 0)
             stop == Min(1 + byte_count, Len(payload))
         IN  IF function_code \in {1, 2}
             THEN [out |-> [byte_count |-> byte_count,
                            values |-> CoilValues(payload, byte_count, 1, stop)],
                   reads |-> {0} \cup (1 .. (stop - 1))]
             ELSE [out |-> [byte_count |-> byte_count,
                            values |-> RegisterValues(payload, 1, stop)],
                   reads |-> {0} \cup RegisterReads(payload, 1, stop)]

\* line 140 taking every non-zero wire value for ON
ParseWriteSingle_NonZero(function_code, payload) ==
    IF Len(payload) < 4
    THEN [out |-> [error |-> "Payload too short for write single response"],
          reads |-> {}]
    ELSE LET address == Shl8Or(At(payload, 0), At(payload, 1))
             value == Shl8Or(At(payload, 2), At(payload, 3))
         IN  [out |-> [address |-> address,
                       value |-> IF function_code = 5
                                 THEN (IF value # 0 THEN 1 ELSE 0)
                                 ELSE value],
              reads |-> 0 .. 3]

\* lines 132-145: function codes 5 and 6
ParseWriteSingle(function_code, payload) ==
    IF Len(payload) < 4
    THEN [out |-> [error |-> "Payload too short for write single response"],
          reads |-> {}]
    ELSE LET address == Shl8Or(At(payload, 0), At(payload, 1))
             value == Shl8Or(At(payload, 2), At(payload, 3))
         IN  [out |-> [address |-> address,
                       value |-> IF function_code = 5
                                 THEN (IF value = 65280 THEN 1 ELSE 0)
                                 ELSE value],
              reads |-> 0 .. 3]

\* lines 148-158: function codes 15 and 16
ParseWriteMultiple(function_code, payload) ==
    IF Len(payload) < 4
    THEN [out |-> [error |-> "Payload too short for write multiple response"],
          reads |-> {}]
    ELSE [out |-> [address |-> Shl8Or(At(payload, 0), At(payload, 1)),
                   quantity |-> Shl8Or(At(payload, 2), At(payload, 3))],
          reads |-> 0 .. 3]

\* the object loop without the overrun check of lines 183-184
RECURSIVE DeviceObjects_NoOverrunCheck(_, _, _)
DeviceObjects_NoOverrunCheck(payload, n, offset) ==
    IF n = 0 \/ offset + 1 >= Len(payload)
    THEN [objects |-> <<>>, reads |-> {}, offset |-> offset]
    ELSE LET object_id == At(payload, offset)
             object_len == At(payload, offset + 1)
             start == offset + 2
             rest == DeviceObjects_NoOverrunCheck(payload, n - 1,
                                                  start + object_len)
             object_value == decode_ascii_replace(
                               PySlice(payload, start, start + object_len))
         IN  [objects |-> <<[id |-> object_id, value |-> object_value]>>
                             \o rest.objects,
              reads |-> {offset, offset + 1}
                          \cup SliceIdx(payload, start, start + object_len)
                          \cup rest.reads,
              offset |-> rest.offset]

\* lines 175-192: the object loop, with n iterations left and the read offset
RECURSIVE DeviceObjects(_, _, _)
DeviceObjects(payload, n, offset) ==
    IF n = 0 \/ offset + 1 >= Len(payload)
    THEN [objects |-> <<>>, reads |-> {}, offset |-> offset]
    ELSE LET object_id == At(payload, offset)
             object_len == At(payload, offset + 1)
             start == offset + 2
         IN  IF start + object_len > Len(payload)
             THEN [objects |-> <<>>, reads |-> {offset, offset + 1},
                   offset |-> start]
             ELSE LET rest == DeviceObjects(payload, n - 1, start + object_len)
                      object_value == decode_ascii_replace(
                                        PySlice(payload, start, start + object_len))
                  IN  [objects |-> <<[id |-> object_id, value |-> object_value]>>
                                      \o rest.objects,
                       reads |-> {offset, offset + 1}
                                   \cup SliceIdx(payload, start, start + object_len)
                                   \cup rest.reads,
                       offset |-> rest.offset]

\* lines 161-201: function code 43
ParseDeviceId(function_code, payload) ==
    IF Len(payload) < 6
    THEN [out |-> [error |-> "Payload too short for device identification"],
          reads |-> {}]
    ELSE LET object_count == At(payload, 5)
             loop == DeviceObjects(payload, object_count, 6)
         IN  [out |-> [mei_type |-> At(payload, 0),
                       reading_device_id |-> At(payload, 1),
                       conformity_level |-> At(payload, 2),
                       more_follows |-> At(payload, 3),
                       next_object_id |-> At(payload, 4),
                       objects |-> loop.objects],
              reads |-> (0 .. 5) \cup loop.reads]

\* lines 204-205 answering an unknown code with the error dict of line 209
ParseUnknown_Error(function_code, payload) ==
    [out |-> [error |-> "unknown function code", raw |-> hex(payload)],
     reads |-> {}]

\* lines 204-205: any other function code
ParseUnknown(function_code, payload) ==
    [out |-> [raw |-> hex(payload)], reads |-> {}]

\* line 148 with 15 missing from its list
Dispatch_No15(function_code, payload) ==
    IF function_code \in {1, 2, 3, 4} THEN ParseRead(function_code, payload)
    ELSE IF function_code \in {5, 6} THEN ParseWriteSingle(function_code, payload)
    ELSE IF function_code \in {16} THEN ParseWriteMultiple(function_code, payload)
    ELSE IF function_code = 43 THEN ParseDeviceId(function_code, payload)
    ELSE ParseUnknown(function_code, payload)

\* lines 108, 132, 148, 161, 204: the dispatch on function_code
Dispatch(function_code, payload) ==
    IF function_code \in {1, 2, 3, 4} THEN ParseRead(function_code, payload)
    ELSE IF function_code \in {5, 6} THEN ParseWriteSingle(function_code, payload)
    ELSE IF function_code \in {15, 16} THEN ParseWriteMultiple(function_code, payload)
    ELSE IF function_code = 43 THEN ParseDeviceId(function_code, payload)
    ELSE ParseUnknown(function_code, payload)

\* the payload indices _parse_function indexes or copies
PayloadReads(function_code, payload) == Dispatch(function_code, payload).reads

\* lines 106-209, with the handler of lines 207-209
_parse_function(function_code, payload) ==
    LET r == Dispatch(function_code, payload)
    IN  IF \A i \in r.reads : InRange(payload, i)
        THEN r.out
        ELSE [error |-> "index out of range", raw |-> hex(payload)]

-----------------------------------------------------------------------------
(* parse_packet, parser.py lines 42-94.  self is the parser's state          *)
(* [transaction_count, packets]; the result carries the state after the     *)
(* call, the returned value, the frame indices the call indexed and whether  *)
(* an exception left the call.                                               *)

\* the bound of line 51 one too low
TooShort_Seven(packet) == Len(packet) = 0 \/ Len(packet) < 7

\* the comparison of line 51 as <=
TooShort_Inclusive(packet) == Len(packet) = 0 \/ Len(packet) <= 8

\* line 51: not packet or len(packet) < 8
TooShort(packet) == Len(packet) = 0 \/ Len(packet) < 8

\* the frame indices lines 57-61 index
HeaderIdx == 0 .. 7

\* lines 57-59 shifting the second byte of each field, not the first
Header_LittleEndian(packet) ==
    [transaction_id |-> Shl8Or(At(packet, 1), At(packet, 0)),
     protocol_id |-> Shl8Or(At(packet, 3), At(packet, 2)),
     length |-> Shl8Or(At(packet, 5), At(packet, 4)),
     unit_id |-> At(packet, 6),
     function_code |-> At(packet, 7)]

\* lines 57-61
Header(packet) ==
    [transaction_id |-> Shl8Or(At(packet, 0), At(packet, 1)),
     protocol_id |-> Shl8Or(At(packet, 2), At(packet, 3)),
     length |-> Shl8Or(At(packet, 4), At(packet, 5)),
     unit_id |-> At(packet, 6),
     function_code |-> At(packet, 7)]

\* line 64 looking at the low byte of protocol_id only
InvalidProtocol_LowByte(protocol_id) == protocol_id % 256 # 0

\* line 64: the frame is rejected
InvalidProtocol(protocol_id) == protocol_id # 0

\* line 69 taking everything after the header, whatever length says
PayloadOf_WholeTail(packet, length) == PySliceFrom(packet, 8)

\* line 69
PayloadOf(packet, length) ==
    IF 8 + length - 2 <= Len(packet)
    THEN PySlice(packet, 8, 8 + length - 2)
    ELSE PySliceFrom(packet, 8)

\* line 76 taking the parser's running counter for the wire transaction id
ParsedPacket_Sequence(self, packet, h, parsed_data) ==
    [transaction_id |-> self.transaction_count,
     protocol_id |-> h.protocol_id,
     length |-> h.length,
     unit_id |-> h.unit_id,
     function_code |-> h.function_code,
     function_name |-> FunctionName(h.function_code),
     payload |-> parsed_data,
     raw_data |-> hex(packet)]

\* lines 75-84
ParsedPacket(self, packet, h, parsed_data) ==
    [transaction_id |-> h.transaction_id,
     protocol_id |-> h.protocol_id,
     length |-> h.length,
     unit_id |-> h.unit_id,
     function_code |-> h.function_code,
     function_name |-> FunctionName(h.function_code),
     payload |-> parsed_data,
     raw_data |-> hex(packet)]

\* line 87 storing the packet at the front of the list
Record_Prepend(self, packet, h, parsed_data) ==
    LET parsed_packet == ParsedPacket(self, packet, h, parsed_data)
    IN  [self |-> [transaction_count |-> self.transaction_count + 1,
                   packets |-> <<parsed_packet>> \o self.packets],
         ret |-> Some(parsed_packet),
         reads |-> HeaderIdx,
         raised |-> FALSE]

\* line 72 setting the counter from the wire transaction id
Record_CountFromId(self, packet, h, parsed_data) ==
    LET parsed_packet == ParsedPacket(self, packet, h, parsed_data)
    IN  [self |-> [transaction_count |-> h.transaction_id,
                   packets |-> Append(self.packets, parsed_packet)],
         ret |-> Some(parsed_packet),
         reads |-> HeaderIdx,
         raised |-> FALSE]

\* lines 72-90: count, build, store, return
Record(self, packet, h, parsed_data) ==
    LET parsed_packet == ParsedPacket(self, packet, h, parsed_data)
    IN  [self |-> [transaction_count |-> self.transaction_count + 1,
                   packets |-> Append(self.packets, parsed_packet)],
         ret |-> Some(parsed_packet),
         reads |-> HeaderIdx,
         raised |-> FALSE]

\* lines 92-94: except Exception: log and return None
Rejected(self, reads) ==
    [self |-> self, ret |-> None, reads |-> reads, raised |-> FALSE]

parse_packet(self, packet) ==
    IF TooShort(packet)
    THEN Rejected(self, {})
    ELSE IF \E i \in HeaderIdx : ~InRange(packet, i)
    THEN Rejected(self, {i \in HeaderIdx : InRange(packet, i)})
    ELSE LET h == Header(packet)
         IN  IF InvalidProtocol(h.protocol_id)
             THEN Rejected(self, HeaderIdx)
             ELSE Record(self, packet, h,
                         _parse_function(h.function_code,
                                         PayloadOf(packet, h.length)))

\* the call logging nothing for a frame with a non-zero protocol_id
parse_packet_log_ProtocolSilent(self, packet) ==
    IF TooShort(packet) THEN <<"Invalid packet: too short">>
    ELSE IF \E i \in HeaderIdx : ~InRange(packet, i)
    THEN <<"Error parsing packet">>
    ELSE <<>>

\* the records a call parse_packet(packet) hands the logger, by their fixed
\* text: the warnings of lines 52 and 65, the errors of lines 93 and 208; the
\* debug record of line 89 is below the level INFO set at line 16
parse_packet_log(self, packet) ==
    IF TooShort(packet) THEN <<"Invalid packet: too short">>
    ELSE IF \E i \in HeaderIdx : ~InRange(packet, i)
    THEN <<"Error parsing packet">>
    ELSE LET h == Header(packet)
         IN  IF InvalidProtocol(h.protocol_id)
             THEN <<"Invalid MODBUS protocol ID">>
             ELSE IF \E i \in PayloadReads(h.function_code,
                                           PayloadOf(packet, h.length)) :
                        ~InRange(PayloadOf(packet, h.length), i)
             THEN <<"Error parsing function">>
             ELSE <<>>

\* the texts logged with logger.warning (lines 52, 65)
LoggedWarnings == {"Invalid packet: too short", "Invalid MODBUS protocol ID"}

-----------------------------------------------------------------------------
(* get_statistics, parser.py lines 211-243. *)

\* line 228 storing 1 where it has to add 1
CountPacket_NoAccumulate(acc, packet) ==
    LET fc == packet.function_code
    IN  [function_counts |->
            IF fc \in DOMAIN acc.function_counts
            THEN [acc.function_counts EXCEPT ![fc] = 1]
            ELSE acc.function_counts @@ (fc :> 1),
         unit_ids |-> acc.unit_ids \cup {packet.unit_id},
         read_operations |->
            IF fc \in {1, 2, 3, 4} THEN acc.read_operations + 1
                                   ELSE acc.read_operations,
         write_operations |->
            IF fc \notin {1, 2, 3, 4} /\ fc \in {5, 6, 15, 16}
            THEN acc.write_operations + 1
            ELSE acc.write_operations]

\* line 234 as a plain else: every code that is no read counts as a write
CountPacket_ElseWrite(acc, packet) ==
    LET fc == packet.function_code
    IN  [function_counts |->
            IF fc \in DOMAIN acc.function_counts
            THEN [acc.function_counts EXCEPT ![fc] = @ + 1]
            ELSE acc.function_counts @@ (fc :> 1),
         unit_ids |-> acc.unit_ids \cup {packet.unit_id},
         read_operations |->
            IF fc \in {1, 2, 3, 4} THEN acc.read_operations + 1
                                   ELSE acc.read_operations,
         write_operations |->
            IF fc \notin {1, 2, 3, 4}
            THEN acc.write_operations + 1
            ELSE acc.write_operations]

\* lines 227-235: one iteration of the loop over self.packets
CountPacket(acc, packet) ==
    LET fc == packet.function_code
    IN  [function_counts |->
            IF fc \in DOMAIN acc.function_counts
            THEN [acc.function_counts EXCEPT ![fc] = @ + 1]
            ELSE acc.function_counts @@ (fc :> 1),
         unit_ids |-> acc.unit_ids \cup {packet.unit_id},
         read_operations |->
            IF fc \in {1, 2, 3, 4} THEN acc.read_operations + 1
                                   ELSE acc.read_operations,
         write_operations |->
            IF fc \notin {1, 2, 3, 4} /\ fc \in {5, 6, 15, 16}
            THEN acc.write_operations + 1
            ELSE acc.write_operations]

\* lines 221-235: the loop, from packet i on
RECURSIVE CountPackets(_, _, _)
CountPackets(pkts, i, acc) ==
    IF i > Len(pkts) THEN acc
    ELSE CountPackets(pkts, i + 1, CountPacket(acc, pkts[i]))

\* unit_ids is list(set): its order is unspecified, so it is kept as a set
get_statistics(self) ==
    IF self.packets = <<>>
    THEN [transaction_count |-> 0]
    ELSE LET acc == CountPackets(self.packets, 1,
                        [function_counts |-> <<>>, unit_ids |-> {},
                         read_operations |-> 0, write_operations |-> 0])
         IN  [transaction_count |-> self.transaction_count,
              function_codes |-> acc.function_counts,
              unit_ids |-> acc.unit_ids,
              read_operations |-> acc.read_operations,
              write_operations |-> acc.write_operations]

-----------------------------------------------------------------------------
(* The frames the environment supplies. *)

SeqUpTo(S, n) == UNION {[1 .. k -> S] : k \in 0 .. n}

\* a MODBUS/TCP frame as a sender lays it out
Mbap(tid, proto, length, unit, fc, payload) ==
    <<tid \div 256, tid % 256, proto \div 256, proto % 256,
      length \div 256, length % 256, unit, fc>> \o payload

\* spec.md scenario A: 00 01 00 00 00 07 01 03 04 00 01 00 FF
ScenarioA == <<0, 1, 0, 0, 0, 7, 1, 3, 4, 0, 1, 0, 255>>

\* the frames of a session: rejected, well-formed and malformed ones
Frames ==
    { <<>>,                                             \* empty
      <<3>>,                                            \* 1 byte
      <<0, 1, 0, 0, 0, 6, 1>>,                          \* 7 bytes
      Mbap(1, 1, 2, 1, 3, <<>>),                        \* protocol_id 1
      Mbap(2, 256, 5, 1, 3, <<2, 0, 5>>),               \* protocol_id 0x0100
      ScenarioA,
      Mbap(258, 0, 4, 2, 1, <<1, 5>>),                  \* read coils
      Mbap(3, 0, 6, 1, 5, <<0, 16, 255, 0>>),           \* write single coil
      Mbap(5, 0, 14, 1, 43,
           <<14, 1, 1, 0, 0, 2, 0, 1, 65, 1, 5, 200>>), \* second object overruns
      Mbap(7, 0, 2, 1, 3, <<>>),                        \* scenario C: no payload
      Mbap(8, 0, 6, 1, 6, <<0, 1>>),                    \* length beyond the frame
      Mbap(65535, 0, 0, 255, 128, <<1, 2>>) }           \* length 0, code 128

\* generated payloads, by function family
ReadPayloads ==
    {<<>>} \cup {<<bc>> \o d : bc \in {0, 1, 2, 3, 4, 255},
                              d \in SeqUpTo({0, 1, 255}, MaxData)}
WritePayloads == SeqUpTo({0, 255}, MaxWrite)
DeviceIdPayloads ==
    SeqUpTo({14}, 5)
      \cup {<<14, 1, 2, 3, 4, oc>> \o t : oc \in 0 .. MaxObjects,
                                        t \in SeqUpTo({0, 1, 65, 200}, MaxTail)}
UnknownPayloads == SeqUpTo({0, 171}, 2)

UnknownCodes == {0, 7, 44, 128, 255}

\* function code and payload pairs
Pdus ==
    ({1, 2, 3, 4} \X ReadPayloads)
      \cup ({5, 6, 15, 16} \X WritePayloads)
      \cup ({43} \X DeviceIdPayloads)
      \cup (UnknownCodes \X UnknownPayloads)

\* wrong length fields tried for a payload of n bytes
WrongLengths(n) == {0, 1, n + 1, n + 3, 65535}

\* every frame a single decode is tried on
AllFrames ==
    Frames
      \cup {Mbap(4660, 0, Len(pdu[2]) + 2, 17, pdu[1], pdu[2]) : pdu \in Pdus}
      \cup UNION {{Mbap(513, 0, l, 2, fc, p) : l \in WrongLengths(Len(p))} :
                    fc \in {6, 44}, p \in WritePayloads}
      \cup {Mbap(tid, proto, 2, unit, 3, <<>>) :
              tid \in {0, 1, 256, 65535}, proto \in {0, 1, 256, 257, 65535},
              unit \in {0, 1, 255}}
      \cup {SubSeq(ScenarioA, 1, n) : n \in 0 .. 12}

-----------------------------------------------------------------------------
(* The parser as a state machine. *)

Self == [transaction_count |-> transaction_count, packets |-> packets]

\* ModbusParser.__init__, lines 37-40
Init ==
    /\ transaction_count = 0
    /\ packets = <<>>
    /\ ret = None
    /\ stats = None
    /\ fed = <<>>
    /\ hdr_reads = {}
    /\ raised = FALSE
    /\ cli = None
    /\ workers = None

\* a call parse_packet(packet); an exception that left an earlier call has
\* ended the run (the loop of lines 284-287 has no handler of its own)
ParsePacket(packet) ==
    /\ raised = FALSE
    /\ Len(fed) < MaxFrames
    /\ LET r == parse_packet(Self, packet)
       IN  /\ transaction_count' = r.self.transaction_count
           /\ packets' = r.self.packets
           /\ ret' = r.ret
           /\ hdr_reads' = r.reads
           /\ raised' = r.raised
    /\ fed' = Append(fed, packet)
    /\ UNCHANGED <<stats, cli, workers>>

\* a call get_statistics()
GetStatistics ==
    /\ stats' = Some(get_statistics(Self))
    /\ UNCHANGED <<transaction_count, packets, ret, fed, hdr_reads, raised,
                    cli, workers>>

Next ==
    \/ \E packet \in Frames : ParsePacket(packet)
    \/ GetStatistics

Spec == Init /\ [][Next]_vars

\* the frames tried after the first one of a decode run
FollowUps == {ScenarioA, Mbap(2, 256, 5, 1, 3, <<2, 0, 5>>)}

\* any frame decoded by a fresh parser, then one more frame
NextDecode ==
    \/ fed = <<>> /\ \E packet \in AllFrames : ParsePacket(packet)
    \/ Len(fed) = 1 /\ \E packet \in FollowUps : ParsePacket(packet)

SpecDecode == Init /\ [][NextDecode]_vars

-----------------------------------------------------------------------------
(* A frame as read off its wire bytes, and the steps of a session. *)

Last(q) == q[Len(q)]

LongEnough(f) == Len(f) >= 8
WireTransactionId(f) == 256 * f[1] + f[2]
WireProtocolId(f) == 256 * f[3] + f[4]
WireLength(f) == 256 * f[5] + f[6]
WireUnitId(f) == f[7]
WireFunctionCode(f) == f[8]

\* a frame the decoder has to accept
WellFormed(f) == LongEnough(f) /\ WireProtocolId(f) = 0

\* the frames of a history that have to be accepted, in order
AcceptedOf(frames) == SelectSeq(frames, WellFormed)

\* a parse_packet step, and the frame it was given
Parsed == fed' # fed
Given == Last(fed')

LogUntouched == packets' = packets /\ transaction_count' = transaction_count

IsError(payload) == "error" \in DOMAIN payload

-----------------------------------------------------------------------------
\* C1: a frame of at least 8 bytes whose protocol_id is not 0 makes
\* parse_packet return None and leaves the log and transaction_count as they
\* were; every Transaction in the log has protocol_id 0.
C1_InvalidProtocolRejected ==
    /\ [](\A i \in DOMAIN packets : packets[i].protocol_id = 0)
    /\ [][(Parsed /\ LongEnough(Given) /\ WireProtocolId(Given) # 0)
            => (ret' = None /\ LogUntouched)]_vars

C1_Witness ==
    /\ fed # <<>> /\ LongEnough(Last(fed)) /\ WireProtocolId(Last(fed)) = 256
    /\ ret = None
    /\ Len(packets) >= 1

\* C2: a frame shorter than 8 bytes (the empty frame too) makes parse_packet
\* return None without indexing the frame, and leaves the log and
\* transaction_count as they were.
C2_TooShortRejected ==
    [][(Parsed /\ ~LongEnough(Given))
        => (ret' = None /\ hdr_reads' = {} /\ LogUntouched)]_vars

C2_Witness ==
    /\ Len(fed) >= 2 /\ Len(Last(fed)) = 7
    /\ ret = None /\ hdr_reads = {}
    /\ Len(packets) >= 1

\* C3: no frame makes parse_packet raise: every call returns None or a
\* Transaction, and every well-formed frame is decoded and recorded whatever
\* rejected or malformed frames came before it.
C3_NeverFatal ==
    /\ raised = FALSE
    /\ Len(ret) <= 1
    /\ fed # <<>> => (WellFormed(Last(fed)) <=> ret # None)
    /\ Len(packets) = Len(AcceptedOf(fed))
    /\ ret # None => Last(packets) = ret[1]

C3_Witness ==
    /\ Len(fed) = 3
    /\ ~WellFormed(fed[1])
    /\ WellFormed(fed[2]) /\ IsError(packets[1].payload)
    /\ WellFormed(fed[3]) /\ ~IsError(packets[2].payload)
    /\ ret = Some(packets[2])

-----------------------------------------------------------------------------
(* A statistics snapshot as its reader sees it: a key the snapshot lacks     *)
(* reads as empty or 0.                                                      *)

FunctionCodesOf(s) ==
    IF "function_codes" \in DOMAIN s THEN s.function_codes ELSE <<>>
UnitIdsOf(s) == IF "unit_ids" \in DOMAIN s THEN s.unit_ids ELSE {}
ReadOperationsOf(s) ==
    IF "read_operations" \in DOMAIN s THEN s.read_operations ELSE 0
WriteOperationsOf(s) ==
    IF "write_operations" \in DOMAIN s THEN s.write_operations ELSE 0

RECURSIVE SumOver(_, _)
SumOver(d, keys) ==
    IF keys = {} THEN 0
    ELSE LET k == CHOOSE x \in keys : TRUE
         IN  d[k] + SumOver(d, keys \ {k})

\* the log positions holding a Transaction with a function code in codes
WithCode(codes) == {i \in DOMAIN packets : packets[i].function_code \in codes}

\* C4: in the statistics snapshot the per-function-code counts sum to
\* transaction_count, and read_operations + write_operations is at most
\* transaction_count.
C4_StatisticsSums ==
    LET s == get_statistics(Self)
    IN  /\ SumOver(FunctionCodesOf(s), DOMAIN FunctionCodesOf(s))
              = s.transaction_count
        /\ ReadOperationsOf(s) + WriteOperationsOf(s) <= s.transaction_count

C4_Witness ==
    /\ stats = Some(get_statistics(Self))
    /\ Len(packets) = 3
    /\ \E c \in DOMAIN stats[1].function_codes : stats[1].function_codes[c] = 2
    /\ stats[1].read_operations + stats[1].write_operations = 2

\* C5: function_codes[c] is the number of recorded Transactions with code c
\* and has no entry for a code never recorded; unit_ids is the set of their
\* unit ids; read_operations counts the codes 1-4 and write_operations the
\* codes 5, 6, 15, 16; any other code counts in function_codes alone.
C5_StatisticsAreCounters ==
    LET s == get_statistics(Self)
    IN  /\ DOMAIN FunctionCodesOf(s)
              = {packets[i].function_code : i \in DOMAIN packets}
        /\ \A c \in DOMAIN FunctionCodesOf(s) :
              FunctionCodesOf(s)[c] = Cardinality(WithCode({c}))
        /\ UnitIdsOf(s) = {packets[i].unit_id : i \in DOMAIN packets}
        /\ ReadOperationsOf(s) = Cardinality(WithCode({1, 2, 3, 4}))
        /\ WriteOperationsOf(s) = Cardinality(WithCode({5, 6, 15, 16}))

C5_Witness ==
    /\ stats = Some(get_statistics(Self))
    /\ Len(packets) = 3
    /\ WithCode({43, 128}) # {}
    /\ WithCode({5}) # {}
    /\ Cardinality(stats[1].unit_ids) = 2

\* C6: the log is the accepted frames' Transactions in arrival order; an
\* accepted frame appends one Transaction at the end, and no parse_packet or
\* get_statistics call removes, reorders or changes one already in the log.
C6_AppendOnlyLog ==
    /\ [](/\ Len(packets) = Len(AcceptedOf(fed))
          /\ \A i \in DOMAIN packets :
                /\ packets[i].transaction_id = WireTransactionId(AcceptedOf(fed)[i])
                /\ packets[i].function_code = WireFunctionCode(AcceptedOf(fed)[i]))
    /\ [][/\ Len(packets') >= Len(packets)
          /\ SubSeq(packets', 1, Len(packets)) = packets
          /\ (Parsed /\ WellFormed(Given)) => packets' = Append(packets, ret'[1])
          /\ ~(Parsed /\ WellFormed(Given)) => packets' = packets]_vars

C6_Witness ==
    /\ Len(fed) = 3 /\ Len(packets) = 2
    /\ WellFormed(fed[1]) /\ ~WellFormed(fed[2]) /\ WellFormed(fed[3])
    /\ fed[1] # fed[3]
    /\ stats = Some(get_statistics(Self))

\* what a parser that has seen no frame makes of a frame
FreshParser == [transaction_count |-> 0, packets |-> <<>>]
FreshDecode(f) == parse_packet(FreshParser, f).ret

\* C7: the Transaction made for a frame depends on the frame's bytes alone:
\* a parser that has already handled other frames (accepted, rejected or
\* malformed) makes the Transaction a fresh parser makes; only the running
\* counter differs.
C7_ContentFromFrameAlone ==
    /\ fed # <<>> => ret = FreshDecode(Last(fed))
    /\ \A i \in DOMAIN packets : Some(packets[i]) = FreshDecode(AcceptedOf(fed)[i])

C7_Witness ==
    /\ Len(fed) = 3 /\ transaction_count = 2
    /\ ~WellFormed(fed[1])
    /\ IsError(packets[1].payload)
    /\ ret = Some(packets[2]) /\ ~IsError(packets[2].payload)

-----------------------------------------------------------------------------
Max(a, b) == IF a >= b THEN a ELSE b

\* the payload of a frame on the wire: what follows the 8 header bytes, as
\* far as the length field says and the frame goes
WirePayload(f) ==
    LET stop == Min(Len(f), 8 + Max(0, WireLength(f) - 2))
    IN  IF stop <= 8 THEN <<>> ELSE SubSeq(f, 9, stop)

\* the payload bytes the decoder used for a frame: the bytes it read, or the
\* whole payload for an unknown code and for a malformed payload
PayloadByteLength(f) ==
    LET fc == WireFunctionCode(f)
        out == _parse_function(fc, WirePayload(f))
    IN  IF IsError(out) \/ "raw" \in DOMAIN out
        THEN Len(WirePayload(f))
        ELSE Cardinality(PayloadReads(fc, WirePayload(f)))

\* C8: every Transaction in the log has length = payload_byte_length + 2,
\* payload_byte_length being the payload bytes used for its function family
\* (the whole payload for an unknown code and for a malformed payload).
C8_LengthMatchesPayload ==
    \A i \in DOMAIN packets :
        packets[i].length = PayloadByteLength(AcceptedOf(fed)[i]) + 2

\* the fixed minimum of a function family, not met by a payload of n bytes
ShortForFamily(fc, n) ==
    \/ fc \in {1, 2, 3, 4} /\ n < 1
    \/ fc \in {5, 6, 15, 16} /\ n < 4
    \/ fc = 43 /\ n < 6

DecodedKeys ==
    {"byte_count", "values", "address", "value", "quantity", "mei_type",
     "reading_device_id", "conformity_level", "more_follows",
     "next_object_id", "objects"}

\* C9: a payload shorter than the fixed minimum of its function family is
\* decoded as the error variant and never as values, address/value,
\* address/quantity or device identification; no exception leaves the call
\* and the next frame is decoded as a fresh parser decodes it.
C9_ShortPayloadIsError ==
    /\ raised = FALSE
    /\ Len(packets) = Len(AcceptedOf(fed))
    /\ \A i \in DOMAIN packets :
          LET f == AcceptedOf(fed)[i]
          IN  ShortForFamily(WireFunctionCode(f), Len(WirePayload(f)))
                => /\ IsError(packets[i].payload)
                   /\ DOMAIN packets[i].payload \cap DecodedKeys = {}
    /\ Len(fed) = 2 => ret = FreshDecode(fed[2])

C9_Witness ==
    /\ Len(fed) = 2 /\ Len(packets) = 2
    /\ packets[1].function_code = 43 /\ Len(WirePayload(fed[1])) = 5
    /\ IsError(packets[1].payload)
    /\ fed[2] = ScenarioA
    /\ ret = Some(packets[2]) /\ packets[2].payload.values = <<1, 255>>

\* C10: the header fields of an accepted frame are its bytes read big-endian
\* at fixed offsets: transaction_id = 256*b[0]+b[1], protocol_id =
\* 256*b[2]+b[3], length = 256*b[4]+b[5], unit_id = b[6], function_code =
\* b[7], the 16-bit fields in 0..65535 and the 8-bit ones in 0..255; scenario
\* A gives 1, 0, 7, 1, 3.
C10_HeaderBigEndian ==
    /\ \A i \in DOMAIN packets :
          LET b == AcceptedOf(fed)[i]
              t == packets[i]
          IN  /\ t.transaction_id = 256 * b[1] + b[2]
              /\ t.protocol_id = 256 * b[3] + b[4]
              /\ t.length = 256 * b[5] + b[6]
              /\ t.unit_id = b[7]
              /\ t.function_code = b[8]
              /\ {t.transaction_id, t.protocol_id, t.length} \subseteq 0 .. 65535
              /\ {t.unit_id, t.function_code} \subseteq 0 .. 255
              /\ b = ScenarioA =>
                    /\ t.transaction_id = 1 /\ t.protocol_id = 0
                    /\ t.length = 7 /\ t.unit_id = 1 /\ t.function_code = 3
    /\ ret # None => ret[1] = Last(packets)

C10_Witness ==
    /\ Len(fed) = 1 /\ Len(packets) = 1 /\ ret = Some(packets[1])
    /\ ret[1].transaction_id = 4660 /\ ret[1].protocol_id = 0
    /\ ret[1].length = 6 /\ ret[1].unit_id = 17 /\ ret[1].function_code = 16

-----------------------------------------------------------------------------
\* the log positions of the Transactions with a function code in codes and a
\* payload of at least n bytes on the wire
Decoded(codes, n) ==
    {i \in DOMAIN packets :
        /\ WireFunctionCode(AcceptedOf(fed)[i]) \in codes
        /\ Len(WirePayload(AcceptedOf(fed)[i])) >= n}

\* the payload on the wire of the Transaction at log position i
PayloadAt(i) == WirePayload(AcceptedOf(fed)[i])

\* the big-endian words of the complete byte pairs of p from position k on
RECURSIVE WordPairs(_, _)
WordPairs(p, k) ==
    IF k + 1 > Len(p) THEN <<>>
    ELSE <<256 * p[k] + p[k + 1]>> \o WordPairs(p, k + 2)

\* how many pairs start within the first bc data bytes of p and are complete
PairsWithin(p, bc) == Max(0, (Min(bc, Len(p) - 2) + 1) \div 2)

\* C11 as stated: for codes 3 and 4 with a non-empty payload, byte_count is
\* the first payload byte and values is the list of the big-endian words of
\* the successive byte pairs after it; an unpaired last byte gives no value.
C11_AllPairsDecoded ==
    \A i \in Decoded({3, 4}, 1) :
        /\ packets[i].payload.byte_count = PayloadAt(i)[1]
        /\ packets[i].payload.values = WordPairs(PayloadAt(i), 2)

\* C11 amended: for codes 3 and 4 with a non-empty payload, byte_count is the
\* first payload byte and values is, in payload order, the big-endian words
\* of the successive byte pairs after it that start within the first
\* byte_count data bytes and are complete; an unpaired last byte gives no
\* value.  With byte_count even and exactly byte_count data bytes, values has
\* byte_count/2 entries; 04 00 01 00 FF gives byte_count 4, values [1, 255].
C11_PairsWithinByteCount ==
    \A i \in Decoded({3, 4}, 1) :
        LET p == PayloadAt(i)
            out == packets[i].payload
        IN  /\ out.byte_count = p[1]
            /\ out.values = SubSeq(WordPairs(p, 2), 1, PairsWithin(p, p[1]))
            /\ (p[1] % 2 = 0 /\ Len(p) = 1 + p[1])
                  => Len(out.values) = p[1] \div 2
            /\ p = <<4, 0, 1, 0, 255>> => out.values = <<1, 255>>

C11_Witness ==
    \E i \in Decoded({3, 4}, 1) :
        /\ PayloadAt(i) = <<2, 0, 255, 1>>
        /\ packets[i].payload = [byte_count |-> 2, values |-> <<255>>]

\* C12: for codes 1 and 2 with at least byte_count data bytes after the
\* leading byte, values has byte_count*8 entries, each 0 or 1, entry 8*j+k
\* being bit k (k = 0 least significant) of data byte j; nothing is trimmed
\* and the bytes after the first byte_count data bytes add nothing.
C12_CoilBitsLsbFirst ==
    \A i \in Decoded({1, 2}, 1) :
        LET p == PayloadAt(i)
            bc == p[1]
            values == packets[i].payload.values
        IN  Len(p) >= 1 + bc =>
              /\ packets[i].payload.byte_count = bc
              /\ Len(values) = bc * 8
              /\ \A j \in 0 .. (bc - 1) : \A k \in 0 .. 7 :
                    values[8 * j + k + 1] = (p[j + 2] \div (2 ^ k)) % 2

C12_Witness ==
    \E i \in Decoded({1, 2}, 1) :
        /\ PayloadAt(i) = <<2, 1, 255, 0>>
        /\ packets[i].payload.values
              = <<1, 0, 0, 0, 0, 0, 0, 0, 1, 1, 1, 1, 1, 1, 1, 1>>

\* C13: for the write codes with a payload of at least 4 bytes, the first two
\* bytes are the big-endian address and the next two the second field: the
\* raw 16-bit value for code 6; 1 exactly for the wire value 0xFF00 and 0 for
\* any other for code 5; the quantity for codes 15 and 16.  Bytes after the
\* first four neither appear in nor change the decoded payload.
C13_WriteFields ==
    \A i \in Decoded({5, 6, 15, 16}, 4) :
        LET p == PayloadAt(i)
            fc == packets[i].function_code
            address == 256 * p[1] + p[2]
            second == 256 * p[3] + p[4]
        IN  /\ fc = 6 => packets[i].payload
                            = [address |-> address, value |-> second]
            /\ fc = 5 => packets[i].payload
                            = [address |-> address,
                               value |-> IF second = 65280 THEN 1 ELSE 0]
            /\ fc \in {15, 16} => packets[i].payload
                            = [address |-> address, quantity |-> second]

C13_Witness ==
    \E i \in Decoded({5}, 5) :
        /\ PayloadAt(i) = <<0, 255, 255, 0, 255>>
        /\ packets[i].payload = [address |-> 255, value |-> 1]

\* the first n declared entries of p from position pos on (1-based) that lie
\* entirely inside p, up to the first one that does not
RECURSIVE EntriesInside(_, _, _)
EntriesInside(p, n, pos) ==
    IF n = 0 \/ pos + 1 > Len(p) THEN <<>>
    ELSE LET last == pos + 1 + p[pos + 1]
         IN  IF last > Len(p) THEN <<>>
             ELSE <<[id |-> p[pos],
                     value |-> [k \in 1 .. p[pos + 1] |->
                                  IF p[pos + 1 + k] < 128 THEN p[pos + 1 + k]
                                  ELSE 65533]]>>
                  \o EntriesInside(p, n - 1, last + 1)

\* C14: for function code 43 with a payload of at least 6 bytes the decoded
\* objects are exactly the longest prefix of the declared entries that lie
\* entirely inside the payload: at most object_count of them, the read offset
\* of the loop ends at or before the payload length, and every payload index
\* read is inside the payload; object_count 2 with one full object present
\* gives exactly one object.
C14_ObjectsInsidePayload ==
    \A i \in Decoded({43}, 6) :
        LET p == PayloadAt(i)
            objects == packets[i].payload.objects
        IN  /\ ~IsError(packets[i].payload)
            /\ objects = EntriesInside(p, p[6], 7)
            /\ Len(objects) <= p[6]
            /\ DeviceObjects(p, p[6], 6).offset <= Len(p)
            /\ PayloadReads(43, p) \subseteq 0 .. (Len(p) - 1)
            /\ p = <<14, 1, 1, 0, 0, 2, 0, 1, 65, 1, 5, 200>>
                   => objects = <<[id |-> 0, value |-> <<65>>]>>

C14_Witness ==
    \E i \in Decoded({43}, 6) :
        /\ PayloadAt(i) = <<14, 1, 1, 0, 0, 2, 0, 1, 65, 1, 5, 200>>
        /\ Len(packets[i].payload.objects) = 1

KnownCodes == {1, 2, 3, 4, 5, 6, 15, 16, 43}

\* the bytes a string of hex digit pairs stands for
HexValue(c) == CHOOSE v \in 0 .. 15 : HexDigits[v + 1] = c
BytesOfHex(s) ==
    [k \in 1 .. (Len(s) \div 2) |->
        16 * HexValue(s[2 * k - 1]) + HexValue(s[2 * k])]

\* the log position a well-formed frame fed[k] has to take
LogPosition(k) == Len(AcceptedOf(SubSeq(fed, 1, k)))

\* C15: a well-formed frame with a function code outside
\* {1,2,3,4,5,6,15,16,43}, 0 and codes >= 128 included, is recorded: the log
\* holds a Transaction for it whose payload has the single field raw, the hex
\* of exactly the payload bytes, whose function_name is "Unknown (<code>)",
\* and which is counted in transaction_count and in function_codes.
C15_UnknownRecorded ==
    \A k \in DOMAIN fed :
        (WellFormed(fed[k]) /\ WireFunctionCode(fed[k]) \notin KnownCodes) =>
            LET i == LogPosition(k)
                fc == WireFunctionCode(fed[k])
                s == get_statistics(Self)
            IN  /\ i \in DOMAIN packets
                /\ packets[i].function_code = fc
                /\ DOMAIN packets[i].payload = {"raw"}
                /\ Len(packets[i].payload.raw) = 2 * Len(WirePayload(fed[k]))
                /\ BytesOfHex(packets[i].payload.raw) = WirePayload(fed[k])
                /\ packets[i].function_name
                      = "Unknown (" \o ToString(fc) \o ")"
                /\ fc = 128 => packets[i].function_name = "Unknown (128)"
                /\ fc = 0 => packets[i].function_name = "Unknown (0)"
                /\ transaction_count = Len(packets)
                /\ s.transaction_count = Len(packets)
                /\ fc \in DOMAIN s.function_codes
                /\ s.function_codes[fc] = Cardinality(WithCode({fc}))

C15_Witness ==
    /\ Len(fed) = 2
    /\ Len(packets) = 2
    /\ packets[1].function_code = 128
    /\ packets[1].payload = [raw |-> <<"a", "b", "0", "0">>]
    /\ packets[1].function_name = "Unknown (128)"

StatisticsFields ==
    {"transaction_count", "function_codes", "unit_ids", "read_operations",
     "write_operations"}

\* C16: every snapshot get_statistics() returns, also one taken before any
\* frame was accepted or after only rejected frames, contains all five fields
\* transaction_count, function_codes, unit_ids, read_operations and
\* write_operations.
C16_AllFiveFields ==
    stats # None => StatisticsFields \subseteq DOMAIN stats[1]

\* the snapshot get_statistics() would return after the step
StatisticsAfter ==
    get_statistics([transaction_count |-> transaction_count',
                    packets |-> packets'])

\* C17: the statistics reflect only successfully decoded Transactions: a
\* frame that is rejected (too short, non-zero protocol_id) or whose payload
\* is decoded as the error variant adds nothing to transaction_count,
\* function_codes, unit_ids, read_operations or write_operations.
C17_OnlyDecodedCounted ==
    [][(Parsed /\ (ret' = None \/ IsError(ret'[1].payload)))
          => /\ transaction_count' = transaction_count
             /\ StatisticsAfter = get_statistics(Self)]_vars

\* C18: a frame of at least 8 bytes whose length field declares more bytes
\* than are present after the 6-byte MBAP prefix (length > len(frame) - 6)
\* produces no Transaction, adds nothing to the log and raises nothing.
C18_IncompleteFrameDropped ==
    [][(Parsed /\ LongEnough(Given) /\ WireLength(Given) > Len(Given) - 6)
          => ret' = None /\ LogUntouched /\ raised' = FALSE]_vars

-----------------------------------------------------------------------------
(* load_pcap and the __main__ block, parser.py lines 245-312.  A capture    *)
(* file is [readable, capture]: whether rdpcap can read it, and the packets  *)
(* it holds.  A captured packet is [tcp, sport, dport, payload]; tcp tells   *)
(* whether it has a TCP layer, payload is what that layer carries.           *)

MaxCapture == 2     \* packets in a generated capture file

\* line 260: TCP in packet and packet[TCP].dport == 502 or packet[TCP].sport
\* == 502.  `and` binds tighter than `or`: for a packet without a TCP layer
\* the left operand is False and packet[TCP].sport raises IndexError.
PortTest(packet) ==
    IF packet.tcp
    THEN [raises |-> FALSE, value |-> packet.dport = 502 \/ packet.sport = 502]
    ELSE [raises |-> TRUE, value |-> FALSE]

\* lines 259-262: the loop over the capture from packet k on (1-based)
RECURSIVE LoadLoop(_, _)
LoadLoop(capture, k) ==
    IF k > Len(capture) THEN [raises |-> FALSE, modbus_packets |-> <<>>]
    ELSE LET test == PortTest(capture[k])
         IN  IF test.raises THEN [raises |-> TRUE, modbus_packets |-> <<>>]
             ELSE LET rest == LoadLoop(capture, k + 1)
                      here == IF test.value /\ capture[k].payload # <<>>
                              THEN <<capture[k].payload>> ELSE <<>>
                  IN  [raises |-> rest.raises,
                       modbus_packets |-> here \o rest.modbus_packets]

\* lines 245-267: the list returned and what the call logs; any exception
\* (rdpcap on a missing or unreadable file, the IndexError of line 260) is
\* logged at line 266 and answered with the empty list of line 267
load_pcap(pcap_file) ==
    LET loop == LoadLoop(pcap_file.capture, 1)
    IN  IF ~pcap_file.readable \/ loop.raises
        THEN [ret |-> <<>>, log |-> <<"Error loading pcap file">>]
        ELSE [ret |-> loop.modbus_packets, log |-> <<>>]

UpperHexDigits == <<"0", "1", "2", "3", "4", "5", "6", "7",
                    "8", "9", "A", "B", "C", "D", "E", "F">>

\* the value of a hex digit of either case, -1 for any other character
HexDigitValue(c) ==
    IF \E v \in 0 .. 15 : HexDigits[v + 1] = c
    THEN CHOOSE v \in 0 .. 15 : HexDigits[v + 1] = c
    ELSE IF \E v \in 0 .. 15 : UpperHexDigits[v + 1] = c
    THEN CHOOSE v \in 0 .. 15 : UpperHexDigits[v + 1] = c
    ELSE 0 - 1

IsSpace(c) == c \in {" ", "\t", "\n", "\r"}

\* bytes.fromhex(s) from position k on (line 291): whitespace is skipped
\* before a pair of digits, a pair is two adjacent hex digits, anything else
\* raises ValueError
RECURSIVE fromhex(_, _)
fromhex(s, k) ==
    IF k > Len(s) THEN [raises |-> FALSE, value |-> <<>>]
    ELSE IF IsSpace(s[k]) THEN fromhex(s, k + 1)
    ELSE IF \/ HexDigitValue(s[k]) < 0
            \/ k + 1 > Len(s)
            \/ HexDigitValue(s[k + 1]) < 0
    THEN [raises |-> TRUE, value |-> <<>>]
    ELSE LET rest == fromhex(s, k + 2)
         IN  [raises |-> rest.raises,
              value |-> IF rest.raises THEN <<>>
                        ELSE <<16 * HexDigitValue(s[k]) + HexDigitValue(s[k + 1])>>
                             \o rest.value]

\* json.dump of the statistics dict (line 306): the int keys of
\* function_codes are written as their decimal strings
JsonStatistics(s) ==
    IF "function_codes" \in DOMAIN s
    THEN LET fc == s.function_codes
         IN  [s EXCEPT !.function_codes =
                 [key \in {ToString(c) : c \in DOMAIN fc} |->
                     fc[CHOOSE c \in DOMAIN fc : ToString(c) = key]]]
    ELSE s

\* a value of an optional argument that the tests of lines 280, 289, 303
\* take as given: not None and not the empty string
ArgGiven(arg) == arg # None /\ arg[1] # <<>>

\* captured packets: MODBUS traffic to and from port 502, other traffic, a
\* segment without payload, payloads the parser rejects (too short, non-zero
\* protocol_id) or finds malformed,
\* and a UDP datagram (no TCP layer)
CapturePackets ==
    {[tcp |-> TRUE, sport |-> 1024, dport |-> 502, payload |-> ScenarioA],
     [tcp |-> TRUE, sport |-> 502, dport |-> 1024,
      payload |-> Mbap(3, 0, 6, 1, 5, <<0, 16, 255, 0>>)],
     [tcp |-> TRUE, sport |-> 1024, dport |-> 80, payload |-> ScenarioA],
     [tcp |-> TRUE, sport |-> 1024, dport |-> 502, payload |-> <<>>],
     [tcp |-> TRUE, sport |-> 1024, dport |-> 502, payload |-> <<3>>],
     [tcp |-> TRUE, sport |-> 1024, dport |-> 502,
      payload |-> Mbap(1, 1, 2, 1, 3, <<>>)],
     [tcp |-> TRUE, sport |-> 1024, dport |-> 502,
      payload |-> Mbap(7, 0, 2, 1, 3, <<>>)],
     [tcp |-> FALSE, sport |-> 1024, dport |-> 502, payload |-> ScenarioA]}

CaptureFiles ==
    {[readable |-> FALSE, capture |-> <<>>]}
    \cup {[readable |-> TRUE, capture |-> c] :
             c \in SeqUpTo(CapturePackets, MaxCapture)}

\* str.upper() of a hex string, as a sender may write it
Upper(s) == [k \in DOMAIN s |-> UpperHexDigits[HexDigitValue(s[k]) + 1]]

\* values of --raw: frames in lower and upper case, with a blank between two
\* bytes, an odd number of digits, a non-hex character, the empty string
RawArgs ==
    {hex(ScenarioA), Upper(hex(ScenarioA)),
     hex(Mbap(3, 0, 6, 1, 5, <<0, 16, 255, 0>>)),
     hex(Mbap(7, 0, 2, 1, 3, <<>>)),
     hex(Mbap(1, 1, 2, 1, 3, <<>>)),
     hex(<<3>>),
     hex(SubSeq(ScenarioA, 1, 8)) \o <<" ">> \o hex(SubSeq(ScenarioA, 9, 13)),
     <<"0", "1", "0">>, <<"0", "g">>, <<>>}

\* values of --output: absent, a path that can be written, one that cannot
OutputArgs == {None, Some([writable |-> TRUE]), Some([writable |-> FALSE])}

\* the command lines: a capture, a raw frame, neither, or both
CliArgs ==
    {a \in [pcap : {None} \cup {Some(f) : f \in CaptureFiles},
            raw : {None} \cup {Some(s) : s \in RawArgs},
            output : OutputArgs] :
        a.pcap = None \/ a.raw \in {None, Some(hex(ScenarioA))}}

\* lines 275-278: the arguments parsed, a new ModbusParser, results = []
InitCli ==
    /\ transaction_count = 0
    /\ packets = <<>>
    /\ ret = None
    /\ stats = None
    /\ fed = <<>>
    /\ hdr_reads = {}
    /\ raised = FALSE
    /\ workers = None
    /\ \E args \in CliArgs :
          cli = Some([pc |-> "start", args |-> args, loaded |-> None,
                      pending |-> <<>>, results |-> <<>>, stdout |-> <<>>,
                      file |-> None, log |-> <<>>, exit |-> None])

\* the packet handed to modbus_parser.parse_packet at lines 285 and 292, and
\* `if parsed: results.append(parsed)`
CliParse(packet, next) ==
    LET r == parse_packet(Self, packet)
    IN  /\ transaction_count' = r.self.transaction_count
        /\ packets' = r.self.packets
        /\ ret' = r.ret
        /\ hdr_reads' = r.reads
        /\ raised' = r.raised
        /\ fed' = Append(fed, packet)
        /\ cli' = Some([next EXCEPT
                     !.results = IF r.ret # None THEN Append(@, r.ret[1])
                                 ELSE @,
                     !.log = @ \o parse_packet_log(Self, packet)])
        /\ UNCHANGED <<stats, workers>>

\* lines 280-282: --pcap given; load_pcap and the count logged
CliLoadPcap ==
    /\ cli # None
    /\ cli[1].pc = "start"
    /\ ArgGiven(cli[1].args.pcap)
    /\ LET r == load_pcap(cli[1].args.pcap[1])
       IN  cli' = Some([cli[1] EXCEPT
                     !.pc = IF r.ret = <<>> THEN "report" ELSE "loop",
                     !.loaded = Some(r.ret),
                     !.pending = r.ret,
                     !.log = @ \o r.log \o <<"Loaded MODBUS packets">>])
    /\ UNCHANGED <<transaction_count, packets, ret, stats, fed, hdr_reads,
                   raised, workers>>

\* lines 284-287: one turn of the loop over the loaded packets
CliParseNext ==
    /\ cli # None
    /\ cli[1].pc = "loop"
    /\ raised = FALSE
    /\ CliParse(Head(cli[1].pending),
                [cli[1] EXCEPT
                    !.pending = Tail(@),
                    !.pc = IF Tail(cli[1].pending) = <<>> THEN "report"
                           ELSE "loop"])

\* lines 289-296: --raw given and --pcap not; a ValueError of fromhex is
\* logged at line 296 and nothing is parsed
CliParseRaw ==
    /\ cli # None
    /\ cli[1].pc = "start"
    /\ ~ArgGiven(cli[1].args.pcap)
    /\ ArgGiven(cli[1].args.raw)
    /\ LET raw_data == fromhex(cli[1].args.raw[1], 1)
       IN  IF raw_data.raises
           THEN /\ cli' = Some([cli[1] EXCEPT
                          !.pc = "report",
                          !.log = Append(@, "Error parsing raw packet")])
                /\ UNCHANGED <<transaction_count, packets, ret, stats, fed,
                               hdr_reads, raised, workers>>
           ELSE CliParse(raw_data.value, [cli[1] EXCEPT !.pc = "report"])

\* neither --pcap nor --raw given: lines 280-296 do nothing
CliNoInput ==
    /\ cli # None
    /\ cli[1].pc = "start"
    /\ ~ArgGiven(cli[1].args.pcap)
    /\ ~ArgGiven(cli[1].args.raw)
    /\ cli' = Some([cli[1] EXCEPT !.pc = "report"])
    /\ UNCHANGED <<transaction_count, packets, ret, stats, fed, hdr_reads,
                   raised, workers>>

\* lines 298-312: the statistics line, then the results to the output file
\* or the last result to stdout; the script ends and the process exits 0
CliReport ==
    /\ cli # None
    /\ cli[1].pc = "report"
    /\ LET s == get_statistics(Self)
           results == cli[1].results
           output == cli[1].args.output
           line == [text |-> "Parsed " \o ToString(s.transaction_count)
                                \o " MODBUS transactions"]
           saving == results # <<>> /\ ArgGiven(output)
           saved == saving /\ output[1].writable
       IN  /\ stats' = Some(s)
           /\ cli' = Some([cli[1] EXCEPT
                 !.pc = "done",
                 !.stdout = IF results # <<>> /\ ~ArgGiven(output)
                            THEN @ \o <<line, [json |-> Last(results)]>>
                            ELSE Append(@, line),
                 !.file = IF saved
                          THEN Some([packets |-> results,
                                     statistics |-> JsonStatistics(s)])
                          ELSE @,
                 !.log = IF saved THEN Append(@, "Results saved")
                         ELSE IF saving THEN Append(@, "Error saving results")
                         ELSE @,
                 !.exit = Some(0)])
    /\ UNCHANGED <<transaction_count, packets, ret, fed, hdr_reads, raised,
                   workers>>

NextCli ==
    \/ CliLoadPcap
    \/ CliParseNext
    \/ CliParseRaw
    \/ CliNoInput
    \/ CliReport

SpecCli == InitCli /\ [][NextCli]_vars

-----------------------------------------------------------------------------
\* a finished run of the command line
CliDone == cli # None /\ cli[1].pc = "done"

\* what load_pcap returns for a readable capture without any packet
EmptyCaptureLoaded == load_pcap([readable |-> TRUE, capture |-> <<>>]).ret

\* C19: when the capture file is missing or unreadable, what load_pcap hands
\* its caller differs from what it returns for a readable capture without
\* MODBUS frames, and the run ends with a non-zero exit status.
C19_SourceFailureFatal ==
    (/\ CliDone
     /\ ArgGiven(cli[1].args.pcap)
     /\ ~cli[1].args.pcap[1].readable)
        => /\ cli[1].loaded # Some(EmptyCaptureLoaded)
           /\ cli[1].exit # Some(0)

IsJson(entry) == "json" \in DOMAIN entry

\* the JSON documents of the structured output: those written to the file of
\* --output when it is given, those printed to stdout otherwise
StructuredOutput ==
    IF ArgGiven(cli[1].args.output)
    THEN (IF cli[1].file = None THEN <<>> ELSE <<cli[1].file[1]>>)
    ELSE LET docs == SelectSeq(cli[1].stdout, IsJson)
         IN  [k \in DOMAIN docs |-> docs[k].json]

IsTransaction(doc) == "transaction_id" \in DOMAIN doc

\* the Transactions the structured output holds, in order
RECURSIVE OutputTransactions(_)
OutputTransactions(docs) ==
    IF docs = <<>> THEN <<>>
    ELSE (IF "packets" \in DOMAIN Head(docs) THEN Head(docs).packets
          ELSE IF IsTransaction(Head(docs)) THEN <<Head(docs)>>
          ELSE <<>>) \o OutputTransactions(Tail(docs))

\* the statistics records the structured output holds
OutputStatistics(docs) ==
    {docs[k].statistics : k \in {j \in DOMAIN docs : "statistics" \in DOMAIN docs[j]}}
    \cup {docs[k] : k \in {j \in DOMAIN docs : "transaction_count" \in DOMAIN docs[j]}}

\* a run given a capture file that can be read, or a hex frame
SourceGiven ==
    IF ArgGiven(cli[1].args.pcap) THEN cli[1].args.pcap[1].readable
    ELSE ArgGiven(cli[1].args.raw)

\* C20: after a run given a capture file (one that can be read) or a hex
\* frame, the structured output (stdout without --output, the file
\* otherwise) holds all parsed Transactions in order and the statistics
\* record, whether zero, one or many frames were accepted.
C20_OutputComplete ==
    (CliDone /\ SourceGiven)
        => /\ OutputTransactions(StructuredOutput) = packets
           /\ \E s \in OutputStatistics(StructuredOutput) :
                 s.transaction_count = transaction_count

-----------------------------------------------------------------------------
(* Two workers, each owning a ModbusParser of its own (lines 34-40: the     *)
(* attributes transaction_count and packets are set on the instance in      *)
(* __init__).  A call of parse_packet takes two steps, so that calls of the  *)
(* two workers overlap: up to the counter increment of line 72, then the     *)
(* append and return of lines 75-90.                                         *)

MaxWorkerFrames == 2    \* frames each worker hands to its parser

Workers == 1 .. 2

\* an accepted read, a frame that is rejected, an accepted write
WorkerFrames == {ScenarioA, <<3>>, Mbap(3, 0, 6, 1, 5, <<0, 16, 255, 0>>)}

\* the attributes as one object shared by all instances
Bind_Shared(ws, w, self) == [v \in DOMAIN ws |-> [ws[v] EXCEPT !.self = self]]

\* lines 39-40, 72, 87: self.transaction_count and self.packets are
\* attributes of the instance the call was made on
Bind(ws, w, self) == [ws EXCEPT ![w].self = self]

\* lines 37-40 for each worker, nothing parsed yet
InitWorkers ==
    /\ transaction_count = 0
    /\ packets = <<>>
    /\ ret = None
    /\ stats = None
    /\ fed = <<>>
    /\ hdr_reads = {}
    /\ raised = FALSE
    /\ cli = None
    /\ workers = [w \in Workers |->
                    [self |-> [transaction_count |-> 0, packets |-> <<>>],
                     pc |-> "idle", parsed_packet |-> None, ret |-> None,
                     stats |-> None, seen |-> 0, fed |-> <<>>]]

\* lines 51-72 of a call by worker w: a rejected frame returns None; an
\* accepted one is decoded and counted, its Transaction not yet appended
WorkerCall(w, packet) ==
    /\ workers # None
    /\ workers[w].pc = "idle"
    /\ Len(workers[w].fed) < MaxWorkerFrames
    /\ LET r == parse_packet(workers[w].self, packet)
       IN  IF r.ret = None
           THEN workers' = [workers EXCEPT ![w].fed = Append(@, packet),
                                           ![w].ret = None]
           ELSE workers' =
                  [Bind(workers, w,
                        [transaction_count |-> r.self.transaction_count,
                         packets |-> workers[w].self.packets])
                   EXCEPT ![w].fed = Append(@, packet),
                          ![w].pc = "recording",
                          ![w].parsed_packet = r.ret]
    /\ UNCHANGED <<transaction_count, packets, ret, stats, fed, hdr_reads,
                   raised, cli>>

\* lines 75-90 of the call: the append to self.packets and the return
WorkerRecord(w) ==
    /\ workers # None
    /\ workers[w].pc = "recording"
    /\ workers' =
          [Bind(workers, w,
                [transaction_count |-> workers[w].self.transaction_count,
                 packets |-> Append(workers[w].self.packets,
                                    workers[w].parsed_packet[1])])
           EXCEPT ![w].pc = "idle",
                  ![w].ret = workers[w].parsed_packet,
                  ![w].parsed_packet = None]
    /\ UNCHANGED <<transaction_count, packets, ret, stats, fed, hdr_reads,
                   raised, cli>>

\* a call get_statistics() by worker w between two of its parse_packet calls
WorkerStatistics(w) ==
    /\ workers # None
    /\ workers[w].pc = "idle"
    /\ workers' = [workers EXCEPT
                      ![w].stats = Some(get_statistics(workers[w].self)),
                      ![w].seen = Len(workers[w].fed)]
    /\ UNCHANGED <<transaction_count, packets, ret, stats, fed, hdr_reads,
                   raised, cli>>

NextWorkers ==
    \/ \E w \in Workers : \E packet \in WorkerFrames : WorkerCall(w, packet)
    \/ \E w \in Workers : WorkerRecord(w)
    \/ \E w \in Workers : WorkerStatistics(w)

SpecWorkers == InitWorkers /\ [][NextWorkers]_vars

\* the parser state after the frames from position k on, fed one by one
RECURSIVE RunFrom(_, _, _)
RunFrom(self, frames, k) ==
    IF k > Len(frames) THEN self
    ELSE RunFrom(parse_packet(self, frames[k]).self, frames, k + 1)

\* the state of a parser that was handed these frames and nothing else
RunAlone(frames) == RunFrom(FreshParser, frames, 1)

\* C21: under every interleaving of the calls of two workers that each own
\* a parser, after each step every worker between calls has the log and
\* transaction_count of its own frames run alone, its latest statistics are
\* those of its own frames up to that call, and the step changed the state
\* of one worker only.
C21_InstancesIndependent ==
    [][/\ \A w \in Workers :
             workers'[w].pc = "idle" =>
                 /\ workers'[w].self = RunAlone(workers'[w].fed)
                 /\ workers'[w].stats # None =>
                        workers'[w].stats[1]
                          = get_statistics(RunAlone(
                              SubSeq(workers'[w].fed, 1, workers'[w].seen)))
       /\ \E w \in Workers :
             \A v \in Workers \ {w} : workers'[v] = workers[v]]_vars

C21_Witness ==
    /\ workers # None
    /\ workers[1].fed = <<ScenarioA, ScenarioA>>
    /\ workers[2].fed = <<<<3>>, Mbap(3, 0, 6, 1, 5, <<0, 16, 255, 0>>)>>
    /\ workers[1].pc = "recording"
    /\ workers[1].self.transaction_count = 2
    /\ Len(workers[2].self.packets) = 1
    /\ workers[2].stats # None /\ workers[2].seen = 2

-----------------------------------------------------------------------------
\* the position (1-based) after the last of the first n declared entries of p
\* from pos on that lie entirely inside p
RECURSIVE EntriesEnd(_, _, _)
EntriesEnd(p, n, pos) ==
    IF n = 0 \/ pos + 1 > Len(p) THEN pos
    ELSE LET last == pos + 1 + p[pos + 1]
         IN  IF last > Len(p) THEN pos ELSE EntriesEnd(p, n - 1, last + 1)

\* decoding of a code-43 payload stops at an entry whose id and length bytes
\* are there and whose declared length overruns the payload
ObjectOverrun(p) ==
    LET pos == EntriesEnd(p, p[6], 7)
    IN  /\ Len(EntriesInside(p, p[6], 7)) < p[6]
        /\ pos + 1 <= Len(p)
        /\ pos + 1 + p[pos + 1] > Len(p)

\* the complete payload that declares just the objects of p that fit
DeclaringFewer(p) ==
    [SubSeq(p, 1, EntriesEnd(p, p[6], 7) - 1)
        EXCEPT ![6] = Len(EntriesInside(p, p[6], 7))]

\* C22: when decoding of a code-43 payload stops because an object entry
\* overruns the payload, the decoded payload carries an indication of it: it
\* differs from the decoded payload of the complete payload that declares
\* only the objects that fit.
C22_OverrunFlagged ==
    \A i \in Decoded({43}, 6) :
        ObjectOverrun(PayloadAt(i)) =>
            /\ packets[i].payload
                  # _parse_function(43, DeclaringFewer(PayloadAt(i)))
            /\ DOMAIN packets[i].payload
                  # {"mei_type", "reading_device_id", "conformity_level",
                     "more_follows", "next_object_id", "objects"}

-----------------------------------------------------------------------------
\* the frames of a history that parse_packet has to reject
RejectedOf(frames) == {k \in DOMAIN frames : ~WellFormed(frames[k])}

\* the positions of the run's log that hold a per-frame diagnostic
DiagnosticsOf(log) == {k \in DOMAIN log : log[k] \in LoggedWarnings}

\* C23: in a run of the command line every frame rejected as too short or
\* for a non-zero protocol_id appends exactly one diagnostic record (a
\* warning naming the reason) to the run's log, an accepted frame appends
\* none, and after every step the number of diagnostic records equals the
\* number of rejected frames.
C23_OneDiagnosticPerRejectedFrame ==
    [][/\ Parsed =>
             LET new == SubSeq(cli'[1].log, Len(cli[1].log) + 1,
                               Len(cli'[1].log))
             IN  /\ SubSeq(cli'[1].log, 1, Len(cli[1].log)) = cli[1].log
                 /\ WellFormed(Given) => new = <<>>
                 /\ ~LongEnough(Given) => new = <<"Invalid packet: too short">>
                 /\ (LongEnough(Given) /\ WireProtocolId(Given) # 0)
                        => new = <<"Invalid MODBUS protocol ID">>
       /\ Cardinality(DiagnosticsOf(cli'[1].log))
             = Cardinality(RejectedOf(fed'))]_vars

C23_Witness ==
    /\ CliDone
    /\ fed = <<<<3>>, Mbap(1, 1, 2, 1, 3, <<>>)>>
    /\ cli[1].log = <<"Loaded MODBUS packets", "Invalid packet: too short",
                      "Invalid MODBUS protocol ID">>
    /\ packets = <<>>

-----------------------------------------------------------------------------
\* frame[8 .. 8 + max(0, length - 2)], as far as the frame goes
DeclaredSlice(f) ==
    [k \in 1 .. Min(Max(0, WireLength(f) - 2), Len(f) - 8) |-> f[8 + k]]

\* C24: the decoded payload of every accepted frame is the decoding of
\* exactly the slice frame[8 .. 8 + max(0, length-2)]: the empty payload for
\* length 0 or 1, the raw bytes of an unknown code are that slice, and the
\* frame cut after the slice decodes to the same payload, so bytes beyond the
\* declared length have no influence.
C24_PayloadIsDeclaredSlice ==
    \A i \in DOMAIN packets :
        LET f == AcceptedOf(fed)[i]
            fc == WireFunctionCode(f)
            slice == DeclaredSlice(f)
        IN  /\ packets[i].payload = _parse_function(fc, slice)
            /\ WireLength(f) \in {0, 1} =>
                  slice = <<>> /\ packets[i].payload = _parse_function(fc, <<>>)
            /\ fc \notin KnownCodes =>
                  BytesOfHex(packets[i].payload.raw) = slice
            /\ packets[i].payload
                  = FreshDecode(SubSeq(f, 1, 8 + Len(slice)))[1].payload

C24_Witness ==
    /\ Len(fed) = 1
    /\ fed[1] = Mbap(513, 0, 3, 2, 44, <<255, 0>>)
    /\ Len(packets) = 1
    /\ packets[1].payload = [raw |-> <<"f", "f">>]

-----------------------------------------------------------------------------
\* C25: in every state transaction_count is the number of Transactions in
\* the log; a step raises it by exactly one for an accepted frame and leaves
\* it alone for a rejected frame and for get_statistics, so it never
\* decreases; it is the number of accepted frames whatever transaction ids
\* they carry.
C25_CounterTiedToLog ==
    /\ [](transaction_count = Len(packets))
    /\ [][/\ (Parsed /\ WellFormed(Given))
                => transaction_count' = transaction_count + 1
          /\ (Parsed /\ ~WellFormed(Given))
                => transaction_count' = transaction_count
          /\ ~Parsed => transaction_count' = transaction_count
          /\ transaction_count' >= transaction_count
          /\ transaction_count' = Len(AcceptedOf(fed'))]_vars

C25_Witness ==
    /\ Len(fed) = 3
    /\ transaction_count = 2
    /\ stats # None
    /\ packets[1].transaction_id = 65535
    /\ packets[2].transaction_id = 65535

-----------------------------------------------------------------------------
\* C26: for function codes 3 and 4 every decoded value is formed from payload
\* bytes at the indices 1..byte_count only: the k-th value (bytes 2k-1 and
\* 2k) has 2k <= byte_count, so values has at most floor(byte_count/2)
\* entries, for odd and even byte_count and every payload length.
C26_ValuesWithinByteCount ==
    \A i \in Decoded({3, 4}, 1) :
        "values" \in DOMAIN packets[i].payload =>
            /\ Len(packets[i].payload.values) <= PayloadAt(i)[1] \div 2
            /\ \A k \in DOMAIN packets[i].payload.values :
                  2 * k <= PayloadAt(i)[1]

\* C27: for function codes 1 to 4, a byte_count greater than the number of
\* data bytes that follow it in the payload makes the decoded payload the
\* error variant, and not a values list built from the bytes present.
C27_TruncatedReadIsError ==
    \A i \in Decoded({1, 2, 3, 4}, 1) :
        PayloadAt(i)[1] > Len(PayloadAt(i)) - 1 =>
            /\ IsError(packets[i].payload)
            /\ "values" \notin DOMAIN packets[i].payload

-----------------------------------------------------------------------------
\* the error dicts of the too-short tests of lines 110, 134, 150, 163
AnticipatedErrors ==
    {[error |-> "Payload too short for read response"],
     [error |-> "Payload too short for write single response"],
     [error |-> "Payload too short for write multiple response"],
     [error |-> "Payload too short for device identification"]}

\* C28: for every function code and payload, the empty one included, every
\* payload index _parse_function reads is within 0..len(payload)-1, so the
\* handler of lines 207-209 is never entered: an error payload is one of the
\* four too-short dicts, produced only for a payload shorter than the
\* minimum of its function family.
C28_CatchAllUnreachable ==
    \A i \in DOMAIN packets :
        LET p == PayloadAt(i)
            fc == packets[i].function_code
        IN  /\ PayloadReads(fc, p) \subseteq 0 .. (Len(p) - 1)
            /\ IsError(packets[i].payload) =>
                  /\ packets[i].payload \in AnticipatedErrors
                  /\ ShortForFamily(fc, Len(p))

C28_Witness ==
    /\ Len(packets) = 2
    /\ packets[1].function_code = 3
    /\ PayloadAt(1) = <<255, 1, 0, 1>>
    /\ packets[1].payload = [byte_count |-> 255, values |-> <<256>>]
    /\ PayloadReads(3, PayloadAt(1)) = {0, 1, 2}

-----------------------------------------------------------------------------
\* the payloads, in capture order, of the packets of a capture that are TCP,
\* have source or destination port 502 and carry a non-empty payload
RECURSIVE ModbusPayloads(_)
ModbusPayloads(capture) ==
    IF capture = <<>> THEN <<>>
    ELSE (IF /\ Head(capture).tcp
             /\ (Head(capture).sport = 502 \/ Head(capture).dport = 502)
             /\ Head(capture).payload # <<>>
          THEN <<Head(capture).payload>> ELSE <<>>)
         \o ModbusPayloads(Tail(capture))

\* C29: for every readable capture, whatever mixture of TCP packets on port
\* 502, TCP packets on other ports and non-TCP packets it holds, load_pcap
\* returns in capture order the payloads of exactly the TCP packets with
\* source or destination port 502 and a non-empty payload.
C29_LoadKeepsModbusPayloads ==
    (/\ cli # None
     /\ cli[1].loaded # None
     /\ cli[1].args.pcap[1].readable)
        => cli[1].loaded[1] = ModbusPayloads(cli[1].args.pcap[1].capture)

-----------------------------------------------------------------------------
\* C30: raw_data of every recorded Transaction is the hex encoding of the
\* complete frame as supplied, bytes beyond the declared length included:
\* two digits per byte, decoding it (digit by digit, and with bytes.fromhex)
\* gives the frame back, and parsing that frame on a new parser returns the
\* same Transaction.
C30_RawHexRoundTrips ==
    \A i \in DOMAIN packets :
        LET f == AcceptedOf(fed)[i]
            raw_data == packets[i].raw_data
            back == fromhex(raw_data, 1)
        IN  /\ Len(raw_data) = 2 * Len(f)
            /\ BytesOfHex(raw_data) = f
            /\ back.raises = FALSE /\ back.value = f
            /\ FreshDecode(back.value) = Some(packets[i])

C30_Witness ==
    /\ Len(packets) = 1
    /\ fed[1] = Mbap(513, 0, 1, 2, 44, <<255, 0>>)
    /\ packets[1].payload = [raw |-> <<>>]
    /\ Len(packets[1].raw_data) = 20
    /\ SubSeq(packets[1].raw_data, 15, 20) = <<"2", "c", "f", "f", "0", "0">>

====
